---- MODULE Spec2Model ----
(***************************************************************************)
(* Model of crc32_demo.c: a piecewise, byte-order CRC-32 (polynomial       *)
(* 0x04C11DB7, MSB first) computed on the STM32 "basic" CRC peripheral,    *)
(* which only accepts whole 32-bit words.                                  *)
(*                                                                         *)
(* A uint32_t is a tuple of 32 bits, most-significant bit first, so every  *)
(* shift truncates to 32 bits exactly as the C type does.  A uint8_t is a  *)
(* number 0..255.  Memory is a tuple of bytes; the byte at address a of a  *)
(* memory image mem is mem[a + 1], and address 0 is word-aligned (the test *)
(* buffers of main() are uint32_t arrays).  The model is of the            *)
(* little-endian build (PC test code on x86, and the STM32 itself).        *)
(***************************************************************************)
EXTENDS Integers, Sequences, FiniteSets, TLC

(***************************************************************************)
(* 32-bit words and the C operators on them.                               *)
(***************************************************************************)
WordBits == 32

\* the 8 bits of a uint8_t, most-significant first
ByteBits(b) ==
    << (b \div 128) % 2, (b \div 64) % 2, (b \div 32) % 2, (b \div 16) % 2,
       (b \div 8) % 2, (b \div 4) % 2, (b \div 2) % 2, b % 2 >>

\* the uint8_t whose 8 bits (most-significant first) are s
BitsByte(s) ==
    128 * s[1] + 64 * s[2] + 32 * s[3] + 16 * s[4]
      + 8 * s[5] + 4 * s[6] + 2 * s[7] + s[8]

\* the uint32_t 0xb3b2b1b0, given as its four bytes, most-significant first
Word(b3, b2, b1, b0) ==
    ByteBits(b3) \o ByteBits(b2) \o ByteBits(b1) \o ByteBits(b0)

Zeros(n) == [i \in 1..n |-> 0]

\* (uint32_t)b for a uint8_t b
U32(b) == Zeros(24) \o ByteBits(b)

\* a ^ b (SubSeq makes the function a tuple again)
XOR(a, b) == SubSeq([i \in 1..WordBits |-> (a[i] + b[i]) % 2], 1, WordBits)

\* a & b
AND(a, b) == SubSeq([i \in 1..WordBits |-> a[i] * b[i]], 1, WordBits)

\* a << n on uint32_t: the top n bits are lost
SHL(a, n) == SubSeq(a, n + 1, WordBits) \o Zeros(n)

\* a >> n on uint32_t
SHR(a, n) == Zeros(n) \o SubSeq(a, 1, WordBits - n)

\* the four bytes of a word as they lie in little-endian memory,
\* lowest address (least-significant byte) first
WordBytes(w) ==
    << BitsByte(SubSeq(w, 25, 32)), BitsByte(SubSeq(w, 17, 24)),
       BitsByte(SubSeq(w, 9, 16)), BitsByte(SubSeq(w, 1, 8)) >>

\* LoadWord on a big-endian machine
LoadWord_bigEndian(b) == Word(b[1], b[2], b[3], b[4])

\* *(uint32_t *)p for the four bytes b at p, lowest address first
LoadWord(b) == Word(b[4], b[3], b[2], b[1])

\* __REV(word): __builtin_bswap32 on a little-endian machine
REV(word) ==
    SubSeq(word, 25, 32) \o SubSeq(word, 17, 24)
      \o SubSeq(word, 9, 16) \o SubSeq(word, 1, 8)

POLY == Word(4, 193, 29, 183)              \* 0x04c11db7
CRC_INIT_VAL == Word(170, 170, 170, 170)   \* 0xaaaaaaaa
R0 == Word(255, 255, 255, 255)             \* 0xffffffff
ZeroWord == Word(0, 0, 0, 0)

(***************************************************************************)
(* cleverCRC(): the bit-serial shift register the test compares against,   *)
(* and which simulates the peripheral.                                     *)
(***************************************************************************)
\* the inner loop: for (bitMask = 0x080; bitMask; bitMask >>= 1)
RECURSIVE cleverCRCbits(_, _, _)
cleverCRCbits(crcReg, byte, bitMask) ==
    IF bitMask = 0 THEN crcReg
    ELSE LET dataBit == IF (byte \div bitMask) % 2 = 1 THEN 1 ELSE 0
             popCrc  == (SHR(crcReg, 31)[WordBits] + dataBit) % 2
             shifted == SHL(crcReg, 1)
         IN  IF popCrc = 1
             THEN cleverCRCbits(XOR(shifted, POLY), byte, bitMask \div 2)
             ELSE cleverCRCbits(shifted, byte, bitMask \div 2)

\* pData is the tuple of bytes from the pointer on; numBytes of them are used.
\* (Len(crcReg) = WordBits always holds: stating it makes TLC evaluate the
\* register of this iteration before it starts the next one.)
RECURSIVE cleverCRC(_, _, _)
cleverCRC(crcReg, pData, numBytes) ==
    IF numBytes > 0 /\ Len(crcReg) = WordBits
    THEN cleverCRC(cleverCRCbits(crcReg, pData[1], 128), Tail(pData), numBytes - 1)
    ELSE crcReg

(***************************************************************************)
(* The CRC peripheral as the PC test code simulates it, and extraCRC.      *)
(* An engine state st is [periphCRC, extraCRC, log, reads]: the two        *)
(* statics of the program, and two records of what the call in progress    *)
(* has done so far.  log has one entry per CRC_PROCESS_WORD, with the word *)
(* written, the register before and after the write, extraCRC at the       *)
(* write, and who wrote it ("word": the bulk loop of crc32process, "lt4":  *)
(* crc32lt4bytes) for how many bytes.  reads has one entry per             *)
(* crc32lt4bytes invocation ("lt4", with its numBytes argument as n) and   *)
(* per *pData32 ("word"), with the pointer, the addresses dereferenced, in *)
(* the order the code dereferences them, and crc, which is                 *)
(* CRC_READ() ^ extraCRC at that point.                                    *)
(***************************************************************************)
CRC_RESET(st) == [st EXCEPT !.periphCRC = R0]

CRC_READ(st) == st.periphCRC

\* what CRC_PROCESS_WORD(word) leaves in periphCRC
ProcessedWord(periph, word) ==
    LET temp == REV(word)
    IN  cleverCRC(periph, WordBytes(temp), 4)

CRC_PROCESS_WORD(st, word, who, n) ==
    LET periph == ProcessedWord(st.periphCRC, word)
    IN  [st EXCEPT !.periphCRC = periph,
                   !.log = Append(@, [word |-> word, periph |-> periph,
                                      by |-> who, n |-> n,
                                      before |-> st.periphCRC,
                                      extra |-> st.extraCRC])]

(***************************************************************************)
(* Pointers: pData is [buf, addr], the byte at pData[i] is buf[addr+i+1].  *)
(***************************************************************************)
At(pData, i) == pData.buf[pData.addr + i + 1]

\* the bytes from the pointer on
From(pData) == SubSeq(pData.buf, pData.addr + 1, Len(pData.buf))

\* &pData[k]
Plus(pData, k) == [pData EXCEPT !.addr = @ + k]

\* the code dereferences pData[0] .. pData[count - 1], in this order
Fetch(st, who, pData, n, count) ==
    [st EXCEPT !.reads = Append(@, [by |-> who, addr |-> pData.addr, n |-> n,
                                    read |-> [i \in 1..count |->
                                                 pData.addr + i - 1],
                                    crc |-> XOR(CRC_READ(st), st.extraCRC)])]

(***************************************************************************)
(* crc32start(), crc32lt4bytes(), crc32process(), crc32finish()            *)
(***************************************************************************)
\* crc32start without the 0xffffffff that cancels the peripheral's value
crc32start_noCancel(st, initialValue) ==
    LET reset == CRC_RESET(st)
    IN  [reset EXCEPT !.extraCRC = initialValue]

\* crc32start without CRC_RESET()
crc32start_noReset(st, initialValue) ==
    [st EXCEPT !.extraCRC = XOR(R0, initialValue)]

crc32start(st, initialValue) ==
    LET reset == CRC_RESET(st)
    IN  [reset EXCEPT !.extraCRC = XOR(R0, initialValue)]

\* lt4extraCRC without a shift
lt4extraCRC_noShift(oldCRC, numBytes) == oldCRC

\* lt4extraCRC with the shift of case 1 in every case
lt4extraCRC_shift8(oldCRC, numBytes) == SHL(oldCRC, 8)

\* the switch of crc32lt4bytes, its assignments to extraCRC:
\* extraCRC = oldCRC << 8, << 16, << 24
lt4extraCRC(oldCRC, numBytes) ==
    CASE numBytes = 1 -> SHL(oldCRC, 8)
      [] numBytes = 2 -> SHL(oldCRC, 16)
      [] OTHER        -> SHL(oldCRC, 24)

\* lt4dataBytes with the bytes in the most-significant bytes of the word
lt4dataBytes_high(pData, numBytes) ==
    CASE numBytes = 1 ->
           XOR(ZeroWord, AND(SHL(U32(At(pData, 0)), 24), Word(255, 0, 0, 0)))
      [] numBytes = 2 ->
           XOR(XOR(ZeroWord,
                   AND(SHL(U32(At(pData, 0)), 24), Word(255, 0, 0, 0))),
               AND(SHL(U32(At(pData, 1)), 16), Word(0, 255, 0, 0)))
      [] OTHER -> ZeroWord

\* lt4dataBytes with the two bytes of case 2 in each other's place
lt4dataBytes_swapped(pData, numBytes) ==
    CASE numBytes = 1 ->
           XOR(ZeroWord, AND(U32(At(pData, 0)), Word(0, 0, 0, 255)))
      [] numBytes = 2 ->
           XOR(XOR(ZeroWord,
                   AND(SHL(U32(At(pData, 1)), 8), Word(0, 0, 255, 0))),
               AND(SHL(U32(At(pData, 0)), 0), Word(0, 0, 0, 255)))
      [] OTHER -> ZeroWord

\* the switch of crc32lt4bytes, its assignments to dataBytes
lt4dataBytes(pData, numBytes) ==
    CASE numBytes = 1 ->
           XOR(ZeroWord, AND(U32(At(pData, 0)), Word(0, 0, 0, 255)))
      [] numBytes = 2 ->
           XOR(XOR(ZeroWord,
                   AND(SHL(U32(At(pData, 0)), 8), Word(0, 0, 255, 0))),
               AND(SHL(U32(At(pData, 1)), 0), Word(0, 0, 0, 255)))
      [] OTHER -> ZeroWord

\* the switch of crc32lt4bytes, its assignments to val (val is the register
\* as read, on entry); case 3 puts the bytes into val directly
lt4val(val, oldCRC, pData, numBytes) ==
    CASE numBytes = 1 ->
           XOR(XOR(val, lt4dataBytes(pData, numBytes)),
               AND(SHR(oldCRC, 24), Word(0, 0, 0, 255)))
      [] numBytes = 2 ->
           XOR(XOR(val, lt4dataBytes(pData, numBytes)),
               AND(SHR(oldCRC, 16), Word(0, 0, 255, 255)))
      [] OTHER ->
           XOR(XOR(XOR(XOR(XOR(val,
                               AND(SHL(U32(At(pData, 0)), 16),
                                   Word(0, 255, 0, 0))),
                           AND(SHL(U32(At(pData, 1)), 8), Word(0, 0, 255, 0))),
                       AND(SHL(U32(At(pData, 2)), 0), Word(0, 0, 0, 255))),
                   lt4dataBytes(pData, numBytes)),
               AND(SHR(oldCRC, 8), Word(0, 255, 255, 255)))

\* the switch of crc32lt4bytes, the number of pData[i] its case reads
lt4count(numBytes) ==
    CASE numBytes = 1 -> 1
      [] numBytes = 2 -> 2
      [] OTHER        -> 3

\* lt4body with val initialised to 0, not to the register as read
lt4body_valFromZero(st, pData, numBytes) ==
    LET read   == CRC_READ(st)
        oldCRC == XOR(read, st.extraCRC)
        fetched == Fetch(st, "lt4", pData, numBytes, lt4count(numBytes))
    IN  CRC_PROCESS_WORD(
            [fetched EXCEPT !.extraCRC = lt4extraCRC(oldCRC, numBytes)],
            lt4val(ZeroWord, oldCRC, pData, numBytes), "lt4", numBytes)

\* crc32lt4bytes past its early return
lt4body(st, pData, numBytes) ==
    LET read   == CRC_READ(st)
        oldCRC == XOR(read, st.extraCRC)
        fetched == Fetch(st, "lt4", pData, numBytes, lt4count(numBytes))
    IN  CRC_PROCESS_WORD(
            [fetched EXCEPT !.extraCRC = lt4extraCRC(oldCRC, numBytes)],
            lt4val(read, oldCRC, pData, numBytes), "lt4", numBytes)

\* crc32lt4bytes without its early return
crc32lt4bytes_noEarlyReturn(st, pData, numBytes) ==
    lt4body(st, pData, numBytes)

crc32lt4bytes(st, pData, numBytes) ==
    IF numBytes = 0
    THEN Fetch(st, "lt4", pData, numBytes, 0)
    ELSE lt4body(st, pData, numBytes)

\* crc32processLoop that goes on while numBytes >= 3
RECURSIVE crc32processLoop_threeLeft(_, _, _)
crc32processLoop_threeLeft(st, pData32, numBytes) ==
    IF numBytes >= 3
    THEN crc32processLoop_threeLeft(
             CRC_PROCESS_WORD(Fetch(st, "word", pData32, 4, 4),
                              REV(LoadWord(From(pData32))), "word", 4),
             Plus(pData32, 4), numBytes - 4)
    ELSE [st |-> st, pData32 |-> pData32, numBytes |-> numBytes]

\* for ( ; numBytes >= 4; numBytes -= 4) { CRC_PROCESS_WORD(__REV(*pData32)); ++pData32; }
RECURSIVE crc32processLoop(_, _, _)
crc32processLoop(st, pData32, numBytes) ==
    IF numBytes >= 4
    THEN crc32processLoop(
             CRC_PROCESS_WORD(Fetch(st, "word", pData32, 4, 4),
                              REV(LoadWord(From(pData32))), "word", 4),
             Plus(pData32, 4), numBytes - 4)
    ELSE [st |-> st, pData32 |-> pData32, numBytes |-> numBytes]

\* headBytes that takes one byte at a time
headBytes_oneByte(misalign, numBytes) ==
    IF 1 > numBytes THEN numBytes ELSE 1

\* headBytes without the cap at numBytes
headBytes_uncapped(misalign, numBytes) == 4 - misalign

\* startBytes, for a pointer that is not at a word address
headBytes(misalign, numBytes) ==
    IF 4 - misalign > numBytes THEN numBytes ELSE 4 - misalign

\* crc32process without the extraCRC = 0 after its first word
crc32process_keepsExtra(st0, pData0, numBytes0) ==
    LET misalign == pData0.addr % 4
        \* the head: 1, 2 or 3 bytes to get pData to a word address
        startBytes == headBytes(misalign, numBytes0)
        head == IF 0 # misalign
                THEN [st       |-> crc32lt4bytes(st0, pData0, startBytes),
                      numBytes |-> numBytes0 - startBytes,
                      pData    |-> Plus(pData0, startBytes)]
                ELSE [st |-> st0, numBytes |-> numBytes0, pData |-> pData0]
        \* the unrolled first iteration, which takes extraCRC into the word
        first == CRC_PROCESS_WORD(
                     Fetch(head.st, "word", head.pData, 4, 4),
                     XOR(REV(LoadWord(From(head.pData))), head.st.extraCRC),
                     "word", 4)
        bulk == IF head.numBytes >= 4
                THEN crc32processLoop(first,
                                      Plus(head.pData, 4), head.numBytes - 4)
                ELSE [st |-> head.st, pData32 |-> head.pData,
                      numBytes |-> head.numBytes]
    IN  IF 0 # bulk.numBytes
        THEN crc32lt4bytes(bulk.st, bulk.pData32, bulk.numBytes)
        ELSE bulk.st

crc32process(st0, pData0, numBytes0) ==
    LET misalign == pData0.addr % 4
        \* the head: 1, 2 or 3 bytes to get pData to a word address
        startBytes == headBytes(misalign, numBytes0)
        head == IF 0 # misalign
                THEN [st       |-> crc32lt4bytes(st0, pData0, startBytes),
                      numBytes |-> numBytes0 - startBytes,
                      pData    |-> Plus(pData0, startBytes)]
                ELSE [st |-> st0, numBytes |-> numBytes0, pData |-> pData0]
        \* the unrolled first iteration, which takes extraCRC into the word
        first == CRC_PROCESS_WORD(
                     Fetch(head.st, "word", head.pData, 4, 4),
                     XOR(REV(LoadWord(From(head.pData))), head.st.extraCRC),
                     "word", 4)
        bulk == IF head.numBytes >= 4
                THEN crc32processLoop([first EXCEPT !.extraCRC = ZeroWord],
                                      Plus(head.pData, 4), head.numBytes - 4)
                ELSE [st |-> head.st, pData32 |-> head.pData,
                      numBytes |-> head.numBytes]
    IN  IF 0 # bulk.numBytes
        THEN crc32lt4bytes(bulk.st, bulk.pData32, bulk.numBytes)
        ELSE bulk.st

\* crc32finish that clears extraCRC once it has taken it into the result
crc32finish_clears(st) ==
    LET crc32 == CRC_READ(st)
    IN  [st  |-> [st EXCEPT !.extraCRC = ZeroWord],
         ret |-> XOR(crc32, st.extraCRC)]

\* crc32finish that returns the peripheral's value alone
crc32finish_readOnly(st) ==
    [st |-> st, ret |-> CRC_READ(st)]

\* the value crc32finish() returns; it assigns to nothing but its local
crc32finish(st) ==
    LET crc32 == CRC_READ(st)
    IN  [st |-> st, ret |-> XOR(crc32, st.extraCRC)]

(***************************************************************************)
(* The state machine.  periphCRC and extraCRC are the program's statics.   *)
(* The other variables record the calls made, as main() and getTrialCRC()  *)
(* make them:                                                              *)
(*   phase         "fresh" before any crc32start, "open" from crc32start   *)
(*                 to crc32finish, "finished" after crc32finish             *)
(*   initialValue  the argument of the latest crc32start                   *)
(*   trial         the crc32process calls since: [buf, start, numBytes]    *)
(*   fed           the bytes those calls covered, concatenated             *)
(*   crc32check    what the latest crc32finish returned                    *)
(*   log           what the latest call wrote to the peripheral            *)
(*   reads         what the latest call read from memory                   *)
(*   bulkWords     the number of words the bulk loop of crc32process has   *)
(*                 written since the latest crc32start                     *)
(*   lastOp        the latest call, the phase it was made in and the       *)
(*                 number of crc32process calls the session had made       *)
(*   sess          per task, its own session (two tasks sharing the        *)
(*                 peripheral without the mutex the comments ask for)      *)
(***************************************************************************)
VARIABLES periphCRC, extraCRC, phase, initialValue, trial, fed, crc32check,
          log, reads, bulkWords, lastOp, sess

vars == << periphCRC, extraCRC, phase, initialValue, trial, fed, crc32check,
           log, reads, bulkWords, lastOp, sess >>

TEST_BUF_SIZE_WORDS == 5

\* the longest range one crc32process call is given
MaxLen == 11

\* the longest range a task feeds when two tasks share the peripheral
MaxSharedLen == 2

\* 0x12 0x34 0x56 0x78 0x9A 0xBC 0xDE 0xF0 0xA6 0xB7 0xC8, the bytes of the
\* documentation's examples
DocBytes == << 18, 52, 86, 120, 154, 188, 222, 240, 166, 183, 200 >>

\* testBuf1: the array of the "End Address" example, at 0x0100 (then 0xD9 of
\* the "Re-ordering Bytes" array, then filler)
testBuf1 == DocBytes \o << 217, 0, 255, 128, 1, 127, 254, 85, 170 >>

\* testBuf2: the array of the "Start Address" example, at 0x0101 (one filler
\* byte before it, filler after)
testBuf2 == << 255 >> \o DocBytes \o << 0, 1, 128, 254, 127, 170, 85, 0 >>

testBuf(b) == IF b = 1 THEN testBuf1 ELSE testBuf2

DocInitialValue == Word(85, 68, 51, 34)    \* 0x55443322

InitialValues == { CRC_INIT_VAL, R0, DocInitialValue }

SharedInitialValues == { CRC_INIT_VAL, R0 }

Tasks == { 1, 2 }

\* a task's session: overlapped once the other task's session was open at the
\* same time, disturbed once the other task called crc32start or
\* crc32process while this session was open
NoSession == [phase |-> "idle", initialValue |-> ZeroWord, fed |-> << >>,
              calls |-> 0, ret |-> ZeroWord, overlapped |-> FALSE,
              disturbed |-> FALSE]

\* the entries of a log that the bulk loop of crc32process made
BulkEntries(l) == SelectSeq(l, LAMBDA e : e.by = "word")

\* the engine as a call finds it
State == [periphCRC |-> periphCRC, extraCRC |-> extraCRC, log |-> << >>,
          reads |-> << >>]

Init ==
    /\ periphCRC = ZeroWord
    /\ extraCRC = ZeroWord
    /\ phase = "fresh"
    /\ initialValue = ZeroWord
    /\ trial = << >>
    /\ fed = << >>
    /\ crc32check = ZeroWord
    /\ log = << >>
    /\ reads = << >>
    /\ bulkWords = 0
    /\ lastOp = [op |-> "none", from |-> "fresh", after |-> 0, task |-> 0]
    /\ sess = [t \in Tasks |-> NoSession]

\* crc32start(I), called by task t
DoStart(t, I) ==
    LET st == crc32start(State, I)
    IN  /\ periphCRC' = st.periphCRC
        /\ extraCRC' = st.extraCRC
        /\ log' = st.log
        /\ reads' = st.reads
        /\ bulkWords' = 0
        /\ phase' = "open"
        /\ initialValue' = I
        /\ trial' = << >>
        /\ fed' = << >>
        /\ crc32check' = ZeroWord
        /\ lastOp' = [op |-> "start", from |-> phase, after |-> Len(trial),
                      task |-> t]

\* crc32process(&testBuf<b>[start], numBytes), called by task t
DoProcess(t, b, start, numBytes) ==
    LET pData == [buf |-> testBuf(b), addr |-> start]
        st    == crc32process(State, pData, numBytes)
    IN  /\ periphCRC' = st.periphCRC
        /\ extraCRC' = st.extraCRC
        /\ log' = st.log
        /\ reads' = st.reads
        /\ bulkWords' = bulkWords + Len(BulkEntries(st.log))
        /\ trial' = Append(trial, [buf |-> b, start |-> start,
                                   numBytes |-> numBytes])
        /\ fed' = fed \o SubSeq(From(pData), 1, numBytes)
        /\ lastOp' = [op |-> "process", from |-> phase, after |-> Len(trial),
                      task |-> t]
        /\ UNCHANGED << phase, initialValue, crc32check >>

\* crc32finish(), called by task t
DoFinish(t) ==
    LET r == crc32finish(State)
    IN  /\ periphCRC' = r.st.periphCRC
        /\ extraCRC' = r.st.extraCRC
        /\ log' = r.st.log
        /\ reads' = r.st.reads
        /\ crc32check' = r.ret
        /\ phase' = "finished"
        /\ lastOp' = [op |-> "finish", from |-> phase, after |-> Len(trial),
                      task |-> t]
        /\ UNCHANGED << initialValue, trial, fed, bulkWords >>

(***************************************************************************)
(* One caller, as main() drives the engine: crc32start, then testBuf1 and  *)
(* testBuf2 (either may be left out), each from a start offset 0..3, then  *)
(* crc32finish.  A caller may also restart at any point, and read the      *)
(* result again.                                                           *)
(***************************************************************************)
Start ==
    /\ \E I \in InitialValues : DoStart(0, I)
    /\ UNCHANGED sess

Process ==
    /\ phase = "open"
    /\ \E b \in 1..2, start \in 0..3, numBytes \in 0..MaxLen :
          /\ \A i \in 1..Len(trial) : trial[i].buf < b
          /\ start + numBytes < TEST_BUF_SIZE_WORDS * 4
          /\ DoProcess(0, b, start, numBytes)
    /\ UNCHANGED sess

Finish ==
    /\ phase \in { "open", "finished" }
    /\ DoFinish(0)
    /\ UNCHANGED sess

Next == Start \/ Process \/ Finish

Spec == Init /\ [][Next]_vars

(***************************************************************************)
(* Two tasks, each running one session (crc32start, one crc32process over  *)
(* its own buffer, crc32finish) on the same peripheral and the same        *)
(* extraCRC, with no mutex taken: their calls interleave, call by call.    *)
(***************************************************************************)
Other(t) == 3 - t

\* what task t's call does to the other task's session, if that is open
Disturb(t, starting) ==
    [u \in Tasks |->
        IF u # t /\ sess[u].phase = "open"
        THEN [sess[u] EXCEPT !.disturbed = TRUE,
                             !.overlapped = @ \/ starting]
        ELSE sess[u]]

TaskStart(t) ==
    /\ sess[t].phase = "idle"
    /\ \E I \in SharedInitialValues :
          /\ DoStart(t, I)
          /\ sess' = [Disturb(t, TRUE) EXCEPT
                         ![t] = [NoSession EXCEPT
                                    !.phase = "open",
                                    !.initialValue = I,
                                    !.overlapped =
                                        sess[Other(t)].phase = "open"]]

TaskProcess(t) ==
    /\ sess[t].phase = "open"
    /\ sess[t].calls = 0
    /\ \E start \in 0..3, numBytes \in 0..MaxSharedLen :
          /\ DoProcess(t, t, start, numBytes)
          /\ sess' = [Disturb(t, FALSE) EXCEPT
                         ![t] = [sess[t] EXCEPT
                                    !.calls = @ + 1,
                                    !.fed = @ \o SubSeq(testBuf(t), start + 1,
                                                        start + numBytes)]]

TaskFinish(t) ==
    /\ sess[t].phase = "open"
    /\ DoFinish(t)
    /\ sess' = [sess EXCEPT ![t] = [sess[t] EXCEPT
                                       !.phase = "finished",
                                       !.ret = crc32finish(State).ret]]

NextShared == \E t \in Tasks : TaskStart(t) \/ TaskProcess(t) \/ TaskFinish(t)

SpecShared == Init /\ [][NextShared]_vars

(***************************************************************************)
(* The claims, under Spec.                                                 *)
(***************************************************************************)
\* the latest call of the session, as getTrialCRC() was given it
LastCall == trial[Len(trial)]

\* crc32good of main(): the bit-serial CRC, seeded with initialValue, of the
\* bytes fed
Reference == cleverCRC(initialValue, fed, Len(fed))

\* C1: crc32finish() after crc32start(I) and crc32process calls over ranges
\* that concatenate to D returns cleverCRC(I, D).
C1_FinishEqualsReference ==
    lastOp.op = "finish" => crc32check = Reference

\* a session of two mid-word ranges at odd addresses, read out
C1_Witness ==
    /\ lastOp.op = "finish"
    /\ initialValue = CRC_INIT_VAL
    /\ trial = << [buf |-> 1, start |-> 3, numBytes |-> 10],
                  [buf |-> 2, start |-> 1, numBytes |-> 11] >>
    /\ crc32check = Reference

\* C2: between calls, from crc32start on, CRC_READ() ^ extraCRC is the
\* bit-serial CRC, seeded with I, of the bytes fed so far.
C2_TrueCRCInvariant ==
    phase # "fresh" => XOR(periphCRC, extraCRC) = Reference

\* mid-session, with a correction pending: the register alone is not the CRC
C2_Witness ==
    /\ lastOp.op = "process"
    /\ Len(trial) = 2
    /\ extraCRC # ZeroWord
    /\ periphCRC # Reference
    /\ XOR(periphCRC, extraCRC) = Reference

\* crc32start(I); crc32process(D, at an address that is a mod 4); crc32finish()
OneCall(I, D, a) ==
    LET S0 == [periphCRC |-> ZeroWord, extraCRC |-> ZeroWord, log |-> << >>,
               reads |-> << >>]
        pData == [buf |-> [i \in 1..a |-> 0] \o D, addr |-> a]
    IN  crc32finish(crc32process(crc32start(S0, I), pData, Len(D))).ret

\* C3: crc32process(A); crc32process(B) gives the crc32finish() value of one
\* crc32process(A||B), whatever the split point and the alignment of A, of B
\* and of A||B.
C3_SplitEqualsOneCall ==
    (lastOp.op = "finish" /\ lastOp.from = "open" /\ Len(trial) = 2) =>
        \A a \in 0..3 : crc32check = OneCall(initialValue, fed, a)

\* A ends mid-word, B starts at an odd address and is not empty
C3_Witness ==
    /\ lastOp.op = "finish"
    /\ lastOp.from = "open"
    /\ Len(trial) = 2
    /\ trial[1].numBytes = 6
    /\ trial[1].start = 0
    /\ trial[2].start = 3
    /\ trial[2].numBytes = 9
    /\ crc32check = OneCall(initialValue, fed, 2)

\* C4: the 11 bytes of the "End Address" example from a word-aligned start
\* with initial value 0xFFFFFFFF: 0x7D24A31B after the two full words,
\* extraCRC = 0x1B000000 and the register at 0xEC832A2F after the tail,
\* and crc32finish() returns 0xF7832A2F.
C4_WorkedExample ==
    (initialValue = R0
       /\ trial = << [buf |-> 1, start |-> 0, numBytes |-> 11] >>) =>
        /\ fed = DocBytes
        /\ lastOp.op = "process" =>
              /\ Len(log) = 3
              /\ log[1].by = "word" /\ log[1].word = Word(18, 52, 86, 120)
              /\ log[2].by = "word" /\ log[2].word = Word(154, 188, 222, 240)
              /\ log[2].periph = Word(125, 36, 163, 27)
              /\ log[3].by = "lt4" /\ log[3].n = 3
              /\ extraCRC = Word(27, 0, 0, 0)
              /\ periphCRC = Word(236, 131, 42, 47)
        /\ lastOp.op = "finish" => crc32check = Word(247, 131, 42, 47)

C4_Witness ==
    /\ initialValue = R0
    /\ trial = << [buf |-> 1, start |-> 0, numBytes |-> 11] >>
    /\ lastOp.op = "finish"
    /\ extraCRC = Word(27, 0, 0, 0)
    /\ crc32check = Word(247, 131, 42, 47)

\* C5: crc32finish() right after crc32start(I) returns I.
C5_EmptySession ==
    (lastOp.op = "finish" /\ trial = << >>) => crc32check = initialValue

C5_Witness ==
    /\ lastOp.op = "finish"
    /\ trial = << >>
    /\ initialValue = DocInitialValue
    /\ crc32check = DocInitialValue

\* C6: from any state crc32start(I) can be called, and leaves the register at
\* 0xFFFFFFFF and extraCRC at 0xFFFFFFFF ^ I: nothing of what came before is
\* left in the engine.
C6_StartResets ==
    /\ ENABLED Start
    /\ lastOp.op = "start" =>
          /\ periphCRC = R0
          /\ extraCRC = XOR(R0, initialValue)

\* a session abandoned after two crc32process calls, then crc32start
C6_Witness ==
    /\ lastOp.op = "start"
    /\ lastOp.from = "open"
    /\ lastOp.after = 2
    /\ initialValue = CRC_INIT_VAL
    /\ periphCRC = R0

\* C7: crc32finish() returns CRC_READ() ^ extraCRC, writes nothing to the
\* peripheral and leaves the register and extraCRC as they were; called
\* again, it returns the same value.
C7_FinishFrame ==
    [][lastOp'.op = "finish" =>
          /\ crc32check' = XOR(periphCRC, extraCRC)
          /\ periphCRC' = periphCRC
          /\ extraCRC' = extraCRC
          /\ log' = << >>
          /\ lastOp.op = "finish" => crc32check' = crc32check]_vars

\* a second crc32finish(), with a correction pending in extraCRC
C7_Witness ==
    /\ lastOp.op = "finish"
    /\ lastOp.from = "finished"
    /\ Len(trial) = 2
    /\ extraCRC # ZeroWord
    /\ crc32check = XOR(periphCRC, extraCRC)

\* C8: crc32process with numBytes = 0 writes nothing to the peripheral and
\* leaves the register and extraCRC as they were, at every alignment.
C8_ZeroLengthNoOp ==
    [][(lastOp'.op = "process" /\ trial'[Len(trial')].numBytes = 0) =>
          /\ log' = << >>
          /\ periphCRC' = periphCRC
          /\ extraCRC' = extraCRC]_vars

\* an empty range at an odd address, with a correction pending
C8_Witness ==
    /\ lastOp.op = "process"
    /\ Len(trial) = 2
    /\ LastCall.numBytes = 0
    /\ LastCall.start = 3
    /\ trial[1].numBytes = 7
    /\ extraCRC # ZeroWord
    /\ log = << >>

\* the reads of the latest call that dereferenced something: one for each
\* entry of log, in the same order
Fetched == SelectSeq(reads, LAMBDA e : e.read # << >>)

\* the memory word *pData32 that the bulk loop read for entry k of log
MemWord(k) ==
    LoadWord([i \in 1..4 |-> testBuf(LastCall.buf)[Fetched[k].read[i] + 1]])

\* the position in log of the first word the bulk loop wrote in this call
\* (0 if it wrote none)
FirstBulk ==
    IF \E k \in 1..Len(log) : log[k].by = "word"
    THEN CHOOSE k \in 1..Len(log) :
             /\ log[k].by = "word"
             /\ \A j \in 1..(k - 1) : log[j].by # "word"
    ELSE 0

\* the number of words the bulk loop had written in this session when it
\* wrote entry k of log
BulkBefore(k) ==
    (bulkWords - Len(BulkEntries(log))) + Len(BulkEntries(SubSeq(log, 1, k - 1)))

\* C11, as claimed: in a session, extraCRC goes into the first word the bulk
\* loop writes after crc32start and is then zero; every later word the bulk
\* loop writes in the session is the byte-reversed memory word, unmodified.
C11_OnlyFirstWordOfSession ==
    lastOp.op = "process" =>
        \A k \in 1..Len(log) :
            log[k].by = "word" =>
                IF BulkBefore(k) = 0
                THEN log[k].word = XOR(REV(MemWord(k)), log[k].extra)
                ELSE log[k].word = REV(MemWord(k))

\* C11, amended: in every crc32process call that writes a word from its bulk
\* loop, extraCRC as it stands then (from crc32start, or from the latest
\* crc32lt4bytes) goes into the first of these words and is then zero;
\* the later words of that call are the byte-reversed memory words,
\* unmodified, and extraCRC is zero when they are written.
C11_FirstWordOfCall ==
    lastOp.op = "process" =>
        /\ Len(Fetched) = Len(log)
        /\ \A k \in 1..Len(log) :
              log[k].by = "word" =>
                  /\ Len(Fetched[k].read) = 4
                  /\ IF k = FirstBulk
                     THEN log[k].word = XOR(REV(MemWord(k)), log[k].extra)
                     ELSE /\ log[k].word = REV(MemWord(k))
                          /\ log[k].extra = ZeroWord
                  /\ k = Len(log) => extraCRC = ZeroWord

\* the second call of a session: words were written before it, and extraCRC,
\* left by the tail of the first call, changes the first word of this call
C11_Witness ==
    /\ lastOp.op = "process"
    /\ Len(trial) = 2
    /\ trial[1] = [buf |-> 1, start |-> 0, numBytes |-> 6]
    /\ LastCall.start = 0
    /\ LastCall.numBytes = 8
    /\ Len(log) = 2
    /\ BulkBefore(1) = 1
    /\ log[1].extra # ZeroWord
    /\ log[1].word # REV(MemWord(1))
    /\ log[1].word = XOR(REV(MemWord(1)), log[1].extra)
    /\ log[2].word = REV(MemWord(2))
    /\ extraCRC = ZeroWord

\* the bytes pData[0..] that the read for entry k of log took from memory
MemBytes(k) ==
    [i \in 1..Len(Fetched[k].read) |->
        testBuf(LastCall.buf)[Fetched[k].read[i] + 1]]

\* what crc32lt4bytes XORed into val for entry k of log, besides the register
\* as read and the top 8n bits of oldCRC: the data bytes, as it placed them
DataWord(k) ==
    XOR(XOR(log[k].word, log[k].before),
        SHR(Fetched[k].crc, WordBits - 8 * log[k].n))

\* bytes b[1..n] in the n most-significant bytes of a word, b[1] first
HighBytes(b) ==
    CASE Len(b) = 1 -> Word(b[1], 0, 0, 0)
      [] Len(b) = 2 -> Word(b[1], b[2], 0, 0)
      [] OTHER      -> Word(b[1], b[2], b[3], 0)

\* bytes b[1..n] in the n least-significant bytes of a word, b[1] first
LowBytes(b) ==
    CASE Len(b) = 1 -> Word(0, 0, 0, b[1])
      [] Len(b) = 2 -> Word(0, 0, b[1], b[2])
      [] OTHER      -> Word(0, b[1], b[2], b[3])

\* C12, as claimed: for 1, 2 or 3 bytes, crc32lt4bytes XORs into the word it
\* writes the bytes pData[0..n-1] placed in the n most-significant bytes of a
\* word, pData[0] the most significant, with zero in the other bytes.
C12_DataInHighBytes ==
    lastOp.op = "process" =>
        \A k \in 1..Len(log) :
            log[k].by = "lt4" =>
                /\ Len(MemBytes(k)) = log[k].n
                /\ DataWord(k) = HighBytes(MemBytes(k))

\* C12, amended: for 1, 2 or 3 bytes, crc32lt4bytes XORs into the word it
\* writes the bytes pData[0..n-1] placed in the n least-significant bytes of
\* a word, pData[0] the most significant of them, with zero in the other
\* bytes.
C12_DataInLowBytes ==
    lastOp.op = "process" =>
        \A k \in 1..Len(log) :
            log[k].by = "lt4" =>
                /\ log[k].n \in 1..3
                /\ Len(MemBytes(k)) = log[k].n
                /\ DataWord(k) = LowBytes(MemBytes(k))

\* a head of 1 byte (0x56), then a tail of 2 bytes (0x78 0x9A)
C12_Witness ==
    /\ lastOp.op = "process"
    /\ LastCall = [buf |-> 2, start |-> 3, numBytes |-> 3]
    /\ Len(log) = 2
    /\ log[1].by = "lt4" /\ log[1].n = 1
    /\ DataWord(1) = Word(0, 0, 0, 86)
    /\ log[2].by = "lt4" /\ log[2].n = 2
    /\ DataWord(2) = Word(0, 0, 120, 154)
    /\ DataWord(2) # HighBytes(MemBytes(2))

\* what entry k of log, written by crc32lt4bytes, shows of extraCRC: set to
\* oldCRC << 8n, oldCRC being CRC_READ() ^ extraCRC on entry, so that its low
\* 8n bits are zero
ShiftedExtraCRC(k) ==
    /\ log[k].n \in 1..3
    /\ log[k].extra = SHL(Fetched[k].crc, 8 * log[k].n)
    /\ \A i \in (WordBits - 8 * log[k].n + 1)..WordBits : log[k].extra[i] = 0

\* C13, as claimed: every crc32lt4bytes of n = 1, 2 or 3 bytes sets extraCRC
\* to oldTrueCRC << 8n, and the next crc32process or crc32finish call finds
\* extraCRC at that value.
C13_ShiftedAndKept ==
    lastOp.op = "process" =>
        \A k \in 1..Len(log) :
            log[k].by = "lt4" =>
                /\ ShiftedExtraCRC(k)
                /\ extraCRC = log[k].extra

\* C13, amended: every crc32lt4bytes of n = 1, 2 or 3 bytes sets extraCRC to
\* oldTrueCRC << 8n, low 8n bits zero.  After the tail of a call (the last
\* write of the call) the next crc32process or crc32finish call finds
\* extraCRC at that value; after a head, the call goes on and replaces it:
\* with zero once it has written a word from the bulk loop, or with the
\* value that the tail sets.
C13_ShiftedExtraCRC ==
    lastOp.op = "process" =>
        \A k \in 1..Len(log) :
            log[k].by = "lt4" =>
                /\ ShiftedExtraCRC(k)
                /\ k = Len(log) => extraCRC = log[k].extra
                /\ k < Len(log) =>
                      IF log[k + 1].by = "word"
                      THEN log[k + 1].extra = log[k].extra
                      ELSE log[k + 1].extra
                             = SHL(Fetched[k + 1].crc, 8 * log[k + 1].n)

\* a tail of 2 bytes after one word: extraCRC is left at oldTrueCRC << 16
C13_Witness ==
    /\ lastOp.op = "process"
    /\ LastCall.start = 0
    /\ LastCall.numBytes = 6
    /\ Len(log) = 2
    /\ log[2].by = "lt4" /\ log[2].n = 2
    /\ Fetched[2].crc # ZeroWord
    /\ extraCRC = SHL(Fetched[2].crc, 16)
    /\ extraCRC # ZeroWord
    /\ extraCRC # Fetched[2].crc

(***************************************************************************)
(* The "End Address" procedure of the documentation, from a register at    *)
(* reg: write what was read back to the peripheral, then write x, the      *)
(* word of its step 4.                                                     *)
(***************************************************************************)
DocEndAddressCleared(reg) == ProcessedWord(reg, reg)

DocEndAddressProcedure(reg, x) == ProcessedWord(DocEndAddressCleared(reg), x)

\* the word of step 4 for entry k of log: the n data bytes XOR the n
\* most-significant bytes of the CRC so far, in the low 8n bits
DocEndAddressWord(k) ==
    XOR(SHR(Fetched[k].crc, WordBits - 8 * log[k].n), LowBytes(MemBytes(k)))

\* the crc32lt4bytes invocations of the latest call that had bytes to process
Lt4Invocations == SelectSeq(reads, LAMBDA e : e.by = "lt4" /\ e.n # 0)

\* C14: every crc32lt4bytes of n = 1, 2 or 3 bytes writes one word to the
\* peripheral and does not reset it; the word is the register as read XOR x,
\* x being (oldTrueCRC >> (32 - 8n)) XOR the n bytes in the low 8n bits, and
\* this one write leaves the register where the documented two writes do:
\* the value read, which clears the register to zero, then x.
C14_OneWriteTwoStep ==
    lastOp.op = "process" =>
        /\ Len(Lt4Invocations) = Len(SelectSeq(log, LAMBDA e : e.by = "lt4"))
        /\ Len(Fetched) = Len(log)
        /\ log # << >> => periphCRC = log[Len(log)].periph
        /\ \A k \in 1..Len(log) :
              /\ log[k].by = Fetched[k].by
              /\ k > 1 => log[k].before = log[k - 1].periph
              /\ log[k].by = "lt4" =>
                    /\ log[k].n \in 1..3
                    /\ log[k].word = XOR(log[k].before, DocEndAddressWord(k))
                    /\ DocEndAddressCleared(log[k].before) = ZeroWord
                    /\ log[k].periph
                         = DocEndAddressProcedure(log[k].before,
                                                  DocEndAddressWord(k))

\* a head of 3 bytes in the second call of a session: the register is
\* neither zero nor at its reset value, and one word is written for it
C14_Witness ==
    /\ lastOp.op = "process"
    /\ Len(trial) = 2
    /\ LastCall.start = 1
    /\ LastCall.numBytes = 7
    /\ Len(Lt4Invocations) = 1
    /\ Len(log) = 2
    /\ log[1].by = "lt4" /\ log[1].n = 3
    /\ log[1].before \notin { ZeroWord, R0 }
    /\ DocEndAddressWord(1) # ZeroWord
    /\ log[1].word = XOR(log[1].before, DocEndAddressWord(1))
    /\ log[1].periph # ProcessedWord(log[1].before, DocEndAddressWord(1))
    /\ log[1].periph = ProcessedWord(ZeroWord, DocEndAddressWord(1))

\* the latest call was given a pointer that is not at a word address
Misaligned == LastCall.start % 4 # 0

\* the number of bytes from the pointer of the latest call to the next word
\* address
ToBoundary == 4 - (LastCall.start % 4)

Min(a, b) == IF a < b THEN a ELSE b

\* what the head step of the latest call did: crc32lt4bytes, first of all,
\* on the pointer given, for min(4 - a mod 4, numBytes) bytes, after which
\* the pointer (where the call reads next) is at a word address or no byte
\* is left
HeadStep ==
    LET k == Min(ToBoundary, LastCall.numBytes)
    IN  /\ reads # << >>
        /\ reads[1].by = "lt4"
        /\ reads[1].addr = LastCall.start
        /\ reads[1].n = k
        /\ (LastCall.start + k) % 4 = 0 \/ LastCall.numBytes - k = 0
        /\ Len(reads) > 1 => reads[2].addr = LastCall.start + k

\* the range of the latest call ends before the next word address
ShortOfBoundary == LastCall.numBytes <= ToBoundary - 1

\* C15, as claimed: at a pointer that is not word-aligned the head step gives
\* k = min(4 - a mod 4, numBytes) bytes to crc32lt4bytes; a range that ends
\* before the next word address gets this one correction, with
\* k = numBytes, and nothing else: exactly one word is written.
C15_ShortRangeOneWrite ==
    (lastOp.op = "process" /\ Misaligned) =>
        /\ HeadStep
        /\ ShortOfBoundary =>
              /\ Len(reads) = 1
              /\ reads[1].n = LastCall.numBytes
              /\ Len(log) = 1
              /\ log[1].by = "lt4"

\* C15, amended: as claimed, but the one word is written only if the range
\* is not empty; for numBytes = 0 the head step is crc32lt4bytes with a
\* count of 0, which writes nothing.
C15_HeadStep ==
    (lastOp.op = "process" /\ Misaligned) =>
        /\ HeadStep
        /\ ShortOfBoundary =>
              /\ Len(reads) = 1
              /\ reads[1].n = LastCall.numBytes
              /\ Len(BulkEntries(log)) = 0
              /\ IF LastCall.numBytes = 0
                 THEN log = << >>
                 ELSE /\ Len(log) = 1
                      /\ log[1].by = "lt4"
                      /\ log[1].n = LastCall.numBytes

\* 2 bytes at an address that is 1 mod 4: one correction, of 2 bytes
C15_Witness ==
    /\ lastOp.op = "process"
    /\ LastCall.start = 1
    /\ LastCall.numBytes = 2
    /\ ShortOfBoundary
    /\ Len(reads) = 1
    /\ reads[1].n = 2
    /\ Len(log) = 1
    /\ log[1].by = "lt4"
    /\ fed # << >>

\* the addresses that the reads r dereferenced, in the order of the reads
RECURSIVE Consumed(_)
Consumed(r) == IF r = << >> THEN << >> ELSE Head(r).read \o Consumed(Tail(r))

\* the addresses of pData[0 .. numBytes - 1] of the latest call
Range == [i \in 1..LastCall.numBytes |-> LastCall.start + i - 1]

\* C16: crc32process(pData, numBytes), numBytes >= 0, at any alignment, takes
\* its range as a head of 0..3 bytes, then whole words, then a tail of 0..3
\* bytes: crc32lt4bytes is invoked with a count in 0..3 only (first or last
\* of all, the words between), every byte pData[0 .. numBytes - 1] is read
\* exactly once, in increasing address order, and no byte from
\* pData[numBytes] on is read.
C16_HeadWordsTail ==
    lastOp.op = "process" =>
        /\ \A j \in 1..Len(reads) :
              IF reads[j].by = "lt4"
              THEN /\ reads[j].n \in 0..3
                   /\ Len(reads[j].read) = reads[j].n
                   /\ j = 1 \/ j = Len(reads)
                   /\ (j = 1 /\ Misaligned) \/ reads[j].addr % 4 = 0
              ELSE /\ Len(reads[j].read) = 4
                   /\ reads[j].addr % 4 = 0
        /\ Len(SelectSeq(reads, LAMBDA e : e.by = "lt4")) \in 0..2
        /\ Len(reads) - Len(SelectSeq(reads, LAMBDA e : e.by = "lt4"))
              = Len(BulkEntries(log))
        /\ Consumed(reads) = Range
        /\ \A i \in 1..Len(Consumed(reads)) :
              /\ Consumed(reads)[i] < LastCall.start + LastCall.numBytes
              /\ i > 1 => Consumed(reads)[i] = Consumed(reads)[i - 1] + 1

\* 11 bytes at an address that is 3 mod 4: a head of 1 byte, two words, a
\* tail of 2 bytes
C16_Witness ==
    /\ lastOp.op = "process"
    /\ LastCall.start = 3
    /\ LastCall.numBytes = 11
    /\ Len(reads) = 4
    /\ reads[1].by = "lt4" /\ reads[1].read = << 3 >>
    /\ reads[2].by = "word" /\ reads[2].read = << 4, 5, 6, 7 >>
    /\ reads[3].by = "word" /\ reads[3].read = << 8, 9, 10, 11 >>
    /\ reads[4].by = "lt4" /\ reads[4].read = << 12, 13 >>
    /\ Consumed(reads) = Range

(***************************************************************************)
(* The "Start Address" example of the documentation: reset, write          *)
(* 0xFFFFFFFF, write 0x00123456 ^ 0x55443322, write the remaining two      *)
(* words byte-reversed, read.                                              *)
(***************************************************************************)
DocStartAddressFirstWord == XOR(Word(0, 18, 52, 86), DocInitialValue)

DocStartAddressProcedure ==
    LET reset   == R0
        cleared == ProcessedWord(reset, R0)
        headed  == ProcessedWord(cleared, DocStartAddressFirstWord)
        word1   == ProcessedWord(headed, Word(120, 154, 188, 222))
        word2   == ProcessedWord(word1, Word(240, 166, 183, 200))
    IN  word2

\* C10: the documented Start Address procedure, for the 11 bytes at 0x0101
\* and initial value 0x55443322, yields the bit-serial CRC of those bytes
\* seeded with 0x55443322, which is what the engine returns for them at an
\* address that is 1 mod 4.
C10_DocStartAddress ==
    (lastOp.op = "finish"
       /\ initialValue = DocInitialValue
       /\ trial = << [buf |-> 2, start |-> 1, numBytes |-> 11] >>) =>
        /\ fed = DocBytes
        /\ DocStartAddressFirstWord = Word(85, 86, 7, 116)
        /\ DocStartAddressProcedure = cleverCRC(DocInitialValue, DocBytes, 11)
        /\ DocStartAddressProcedure = crc32check

(***************************************************************************)
(* The claims, under SpecShared.                                           *)
(***************************************************************************)
\* the bit-serial CRC of what task t itself fed, seeded with its own value
OwnReference(t) ==
    cleverCRC(sess[t].initialValue, sess[t].fed, Len(sess[t].fed))

\* both tasks' sessions were open at the same time, fed bytes and finished
BothRan ==
    \A t \in Tasks : /\ sess[t].phase = "finished"
                     /\ sess[t].overlapped
                     /\ sess[t].fed # << >>

\* C9, as claimed: when two sessions run on the engine at the same time,
\* neither session's crc32finish() returns the reference CRC of its bytes.
C9_BothCorrupted ==
    BothRan => \A t \in Tasks : sess[t].ret # OwnReference(t)

\* C9, amended: the engine follows one stream.  Every crc32finish() returns
\* the bit-serial CRC, seeded with the value of the latest crc32start by
\* either task, of the bytes either task fed since; and a session during
\* which the other task called neither crc32start nor crc32process returns
\* the reference CRC of its own bytes.
C9_SharedEngine ==
    /\ lastOp.op = "finish" => sess[lastOp.task].ret = Reference
    /\ \A t \in Tasks :
          (sess[t].phase = "finished" /\ ~sess[t].disturbed) =>
              sess[t].ret = OwnReference(t)

\* both ran: task 1's result is corrupted, task 2's is not
C9_Witness ==
    /\ BothRan
    /\ sess[1].disturbed
    /\ ~sess[2].disturbed
    /\ sess[1].ret # OwnReference(1)
    /\ sess[2].ret = OwnReference(2)

====
